---- MODULE Spec2Model ----
(***************************************************************************)
(* PromAioServerInterceptor                                                *)
(* (grpc_prometheus_metrics/aio/prometheus_aio_server_interceptor.py):     *)
(* the handler wrapping done by intercept_service and the behaviour of the *)
(* wrapped coroutine new_behavior, with the metric registry it updates.    *)
(*                                                                         *)
(* A call runs  new -> intercepted -> awaiting -> returned | raised.       *)
(* new_behavior has one suspension point, the await of the original        *)
(* behavior (line 87): Begin is the code before it, Resume everything      *)
(* after it.  The wrapped streams are pulled by the behavior (requests)    *)
(* and by the transport (responses).                                       *)
(*                                                                         *)
(* Spec follows one call through the interceptor, under every              *)
(* configuration and everything the behavior, the context and the clock    *)
(* can do; the call slots beyond the first stay unused in it.              *)
(***************************************************************************)
EXTENDS Integers, Sequences, FiniteSets, Bags, TLC

\* ---- bounds of the model ------------------------------------------------
NumCalls == 2      \* call slots of the interceptor
MaxMsgs == 2       \* longest request / response stream
MaxTime == 1       \* the clock reads 0..MaxTime

Calls == 1..NumCalls
Times == 0..MaxTime

\* ---- grpc.StatusCode ----------------------------------------------------
\* The enumeration in declaration order; member x has x.value[0] = index - 1.
StatusCode ==
    << "OK", "CANCELLED", "UNKNOWN", "INVALID_ARGUMENT", "DEADLINE_EXCEEDED",
       "NOT_FOUND", "ALREADY_EXISTS", "PERMISSION_DENIED", "RESOURCE_EXHAUSTED",
       "FAILED_PRECONDITION", "ABORTED", "OUT_OF_RANGE", "UNIMPLEMENTED",
       "INTERNAL", "UNAVAILABLE", "DATA_LOSS", "UNAUTHENTICATED" >>

\* self._code_to_status_mapping = {x.value[0]: x for x in grpc.StatusCode}
code_to_status_mapping == [raw \in 0..(Len(StatusCode) - 1) |-> StatusCode[raw + 1]]

NoCode == -1         \* servicer_context.code() is None / the error carries no code
\* raw identifier of NOT_FOUND
NotFound ==
    CHOOSE raw \in DOMAIN code_to_status_mapping : code_to_status_mapping[raw] = "NOT_FOUND"
\* a raw identifier that is no key of the mapping
UnmappedRaw == Len(StatusCode)

\* ---- values -------------------------------------------------------------
None == [t |-> "None", v |-> 0]
Msg(i) == [t |-> "msg", v |-> i]
Iter(n) == [t |-> "iter", v |-> n]                 \* a stream of the messages 1..n
WrappedIter(n) == [t |-> "wrapped_iter", v |-> n]  \* wrap_iterator_inc_counter over it
Coroutine == [t |-> "coroutine", v |-> 0]          \* behavior(...) called, not awaited

\* Exceptions: cls is the Python class family, call whether the object is a
\* grpc.aio.Call, code the raw status it carries (NoCode when it carries none).
RpcError(call, code) == [cls |-> "RpcError", call |-> call, code |-> code]
OtherError == [cls |-> "Exception", call |-> FALSE, code |-> NoCode]
KeyError == [cls |-> "KeyError", call |-> FALSE, code |-> NoCode]
BaseError == [cls |-> "BaseException", call |-> FALSE, code |-> NoCode]
NoError == [cls |-> "", call |-> FALSE, code |-> NoCode]

IsRpcError(e) == e.cls = "RpcError"                            \* except grpc.RpcError
IsException(e) == e.cls \in {"RpcError", "Exception", "KeyError"}  \* except Exception

Return(val) == [kind |-> "return", val |-> val, exc |-> NoError]
Raise(e) == [kind |-> "raise", val |-> None, exc |-> e]
Pending == [kind |-> "pending", val |-> None, exc |-> NoError]

\* ---- handlers -----------------------------------------------------------
\* A grpc.RpcMethodHandler has one behavior attribute per shape (unary_unary,
\* unary_stream, stream_unary, stream_stream), one of them set: slot names the
\* attribute that is set and behavior is its value; wraps is the behavior_fn a
\* new_behavior closes over ("" for None).
NoHandler ==
    [present |-> FALSE, request_streaming |-> FALSE, response_streaming |-> FALSE,
     behavior |-> "", slot |-> "", wraps |-> "",
     request_deserializer |-> "", response_serializer |-> ""]

\* grpc.unary_unary_rpc_method_handler and its three siblings
unary_unary_rpc_method_handler(behavior, wraps, request_deserializer, response_serializer) ==
    [present |-> TRUE, request_streaming |-> FALSE, response_streaming |-> FALSE,
     behavior |-> behavior, slot |-> "unary_unary", wraps |-> wraps,
     request_deserializer |-> request_deserializer,
     response_serializer |-> response_serializer]

unary_stream_rpc_method_handler(behavior, wraps, request_deserializer, response_serializer) ==
    [present |-> TRUE, request_streaming |-> FALSE, response_streaming |-> TRUE,
     behavior |-> behavior, slot |-> "unary_stream", wraps |-> wraps,
     request_deserializer |-> request_deserializer,
     response_serializer |-> response_serializer]

stream_unary_rpc_method_handler(behavior, wraps, request_deserializer, response_serializer) ==
    [present |-> TRUE, request_streaming |-> TRUE, response_streaming |-> FALSE,
     behavior |-> behavior, slot |-> "stream_unary", wraps |-> wraps,
     request_deserializer |-> request_deserializer,
     response_serializer |-> response_serializer]

stream_stream_rpc_method_handler(behavior, wraps, request_deserializer, response_serializer) ==
    [present |-> TRUE, request_streaming |-> TRUE, response_streaming |-> TRUE,
     behavior |-> behavior, slot |-> "stream_stream", wraps |-> wraps,
     request_deserializer |-> request_deserializer,
     response_serializer |-> response_serializer]

\* The handlers the continuation can yield: one per shape, as the service's
\* generated code registers them, with its deserializer and serializer.
Handlers ==
    { unary_unary_rpc_method_handler("original", "", "FromString", "SerializeToString"),
      unary_stream_rpc_method_handler("original", "", "FromString", "SerializeToString"),
      stream_unary_rpc_method_handler("original", "", "FromString", "SerializeToString"),
      stream_stream_rpc_method_handler("original", "", "FromString", "SerializeToString") }

\* handler.unary_unary, handler.unary_stream, ...: the attribute named slot
Attribute(h, slot) == IF h.slot = slot THEN h.behavior ELSE ""

\* grpc_utils.get_method_type
get_method_type(request_streaming, response_streaming) ==
    IF request_streaming
    THEN IF response_streaming THEN "BIDI_STREAMING" ELSE "CLIENT_STREAMING"
    ELSE IF response_streaming THEN "SERVER_STREAMING" ELSE "UNARY"

\* handler_call_details of the calls, and grpc_utils.split_method_call
CallDetails == {[service |-> "Greeter", method |-> "SayHello"]}
split_method_call(details) == <<details.service, details.method>>

VARIABLES
    config,          \* the constructor's arguments (self._legacy, ...)
    pc,              \* where each call is
    details,         \* handler_call_details of each call
    handler,         \* what the continuation yielded for each call
    optional_any,    \* what intercept_service returned for each call
    start,           \* new_behavior's local start
    request_len,     \* length of the call's request stream
    received,        \* elements pulled from the wrapped request stream
    sent,            \* elements pulled from the wrapped response stream
    stream_end,      \* how the request and the response stream of a call end
    cancelled,       \* servicer_context.cancelled()
    context_code,    \* servicer_context.code() when the behavior completed
    behavior_outcome,\* how the awaited original behavior completed
    result,          \* what new_behavior returned or raised
    trace,           \* per call: its metric events, invocations and log lines, in order
    registry         \* the metric registry: a bag of samples

vars == << config, pc, details, handler, optional_any, start, request_len,
           received, sent, stream_end, cancelled, context_code, behavior_outcome, result,
           trace, registry >>

Configs ==
    [ enable_handling_time_histogram : BOOLEAN, legacy : BOOLEAN,
      skip_exceptions : BOOLEAN, log_exceptions : BOOLEAN, unary_only : BOOLEAN ]

\* ---- events and the registry --------------------------------------------
\* An event of a call: a metric update (ev is the metric's key in
\* self._metrics), an invocation of the original behavior, or a log line.
Event(ev, key, code, value) == [ev |-> ev, key |-> key, code |-> code, value |-> value]

Started == Event("grpc_server_started_counter", "", "", 0)
Received == Event("grpc_server_stream_msg_received", "", "", 0)
\* (mutant) the response stream is wrapped with the received counter
SentAsReceived == Event("grpc_server_stream_msg_received", "", "", 0)
Sent == Event("grpc_server_stream_msg_sent", "", "", 0)
Invoked == Event("invoke", "", "", 0)
\* element item of the wrapped stream of side ("request", "response") is
\* yielded to its consumer; the wrapped stream ends as its source did
Yielded(side, item) == Event("yield", side, "", item)
Ended(side, how) == Event("end", side, how, 0)
Logged == Event("log", "", "", 0)
\* The awaited behavior has completed (line 87 resumes) / new_behavior
\* returns or raises to its caller
Completed == Event("complete", "", "", 0)
Exited == Event("exit", "", "", 0)
\* default_timer() is read in the finally clause and gives now
Timer(now) == Event("default_timer", "", "", now)

MetricNames ==
    { "grpc_server_started_counter", "grpc_server_stream_msg_received",
      "grpc_server_stream_msg_sent", "grpc_server_handled_total_counter",
      "legacy_grpc_server_handled_latency_seconds", "grpc_server_handled_histogram" }

IsMetric(e) == e.ev \in MetricNames

\* .labels(grpc_type=..., grpc_service=..., grpc_method=..., [code key]=...) of an event
Sample(e, grpc_type, det) ==
    [ name |-> e.ev, grpc_type |-> grpc_type,
      grpc_service |-> split_method_call(det)[1],
      grpc_method |-> split_method_call(det)[2],
      key |-> e.key, code |-> e.code, value |-> e.value ]

RECURSIVE Record(_, _, _, _)
\* .inc() / .observe() of the metric events of es, in order
Record(reg, es, grpc_type, det) ==
    IF es = << >> THEN reg
    ELSE Record(IF IsMetric(Head(es))
                THEN reg (+) SetToBag({Sample(Head(es), grpc_type, det)})
                ELSE reg,
                Tail(es), grpc_type, det)

\* grpc_utils.wrap_iterator_inc_counter, one pull of the wrapped stream when
\* the source has a next element: the counter is incremented and the
\* element yielded
wrap_iterator_inc_counter(counter, side, item) ==
    << counter, Yielded(side, item) >>

\* grpc_utils.wrap_iterator_inc_counter, one pull when the source has ended
\* (how is "end" or "error"): the end reaches the consumer
wrap_iterator_end(side, how) ==
    << Ended(side, how) >>

\* ---- PromAioServerInterceptor ------------------------------------------
\* (mutant) _compute_status_code that looks at the explicit status first
compute_status_code_code_first(ctx_cancelled, ctx_code) ==
    IF ctx_code \in DOMAIN code_to_status_mapping
    THEN [raised |-> FALSE, name |-> code_to_status_mapping[ctx_code]]
    ELSE IF ctx_cancelled THEN [raised |-> FALSE, name |-> "CANCELLED"]
    ELSE IF ctx_code = NoCode THEN [raised |-> FALSE, name |-> "OK"]
    ELSE [raised |-> TRUE, name |-> ""]

\* _compute_status_code: the status name, or the KeyError of the lookup
compute_status_code(ctx_cancelled, ctx_code) ==
    IF ctx_cancelled THEN [raised |-> FALSE, name |-> "CANCELLED"]
    ELSE IF ctx_code = NoCode THEN [raised |-> FALSE, name |-> "OK"]
    ELSE IF ctx_code \in DOMAIN code_to_status_mapping
         THEN [raised |-> FALSE, name |-> code_to_status_mapping[ctx_code]]
         ELSE [raised |-> TRUE, name |-> ""]

\* _compute_error_code
compute_error_code(grpc_exception) ==
    IF grpc_exception.call
    THEN code_to_status_mapping[grpc_exception.code]
    ELSE "UNKNOWN"

\* (mutant) the status always goes under the current label key
increase_grpc_server_handled_total_counter_one_key(legacy, grpc_code) ==
    Event("grpc_server_handled_total_counter", "grpc_code", grpc_code, 0)

\* increase_grpc_server_handled_total_counter
increase_grpc_server_handled_total_counter(legacy, grpc_code) ==
    IF legacy
    THEN Event("grpc_server_handled_total_counter", "code", grpc_code, 0)
    ELSE Event("grpc_server_handled_total_counter", "grpc_code", grpc_code, 0)

Max(a, b) == IF a >= b THEN a ELSE b

\* (mutant) the started counter is incremented whatever the request is
before_invoke_unconditional(request_streaming) ==
    << Started >>

\* new_behavior, lines 70-84: before the original behavior is invoked
before_invoke(request_streaming) ==
    IF request_streaming THEN << >> ELSE << Started >>

\* new_behavior, lines 87-114: the inner try once the awaited behavior has
\* completed with outcome; what is then pending, and response_or_iterator
inner_try(cfg, response_streaming, outcome, ctx_cancelled, ctx_code) ==
    IF outcome.kind = "return"
    THEN IF response_streaming
         THEN [ events |-> << >>,
                pending |-> Return(WrappedIter(outcome.val.v)),
                response_or_iterator |-> WrappedIter(outcome.val.v) ]
         ELSE LET status == compute_status_code(ctx_cancelled, ctx_code) IN
              IF status.raised
              THEN [ events |-> << >>, pending |-> Raise(KeyError),
                     response_or_iterator |-> outcome.val ]
              ELSE [ events |->
                       << increase_grpc_server_handled_total_counter(cfg.legacy, status.name) >>,
                     pending |-> Return(outcome.val),
                     response_or_iterator |-> outcome.val ]
    ELSE IF IsRpcError(outcome.exc)
         THEN [ events |->
                  << increase_grpc_server_handled_total_counter(
                         cfg.legacy, compute_error_code(outcome.exc)) >>,
                pending |-> Raise(outcome.exc),
                response_or_iterator |-> None ]
         ELSE [ events |-> << >>, pending |-> Raise(outcome.exc),
                response_or_iterator |-> None ]

\* (mutant) the finally clause looks at enable_handling_time_histogram alone
finally_clause_flag_only(cfg, response_streaming, start_time, now) ==
    IF ~response_streaming /\ cfg.enable_handling_time_histogram
    THEN << Timer(now),
            Event("grpc_server_handled_histogram", "", "", Max(now - start_time, 0)) >>
    ELSE << >>

\* (mutant) the finally clause observes the difference as it is
finally_clause_unfloored(cfg, response_streaming, start_time, now) ==
    IF ~response_streaming
    THEN IF cfg.legacy
         THEN << Timer(now),
                 Event("legacy_grpc_server_handled_latency_seconds", "", "",
                       now - start_time) >>
         ELSE IF cfg.enable_handling_time_histogram
              THEN << Timer(now),
                      Event("grpc_server_handled_histogram", "", "", now - start_time) >>
              ELSE << >>
    ELSE << >>

\* new_behavior, lines 116-130: the finally clause
finally_clause(cfg, response_streaming, start_time, now) ==
    IF ~response_streaming
    THEN IF cfg.legacy
         THEN << Timer(now),
                 Event("legacy_grpc_server_handled_latency_seconds", "", "",
                       Max(now - start_time, 0)) >>
         ELSE IF cfg.enable_handling_time_histogram
              THEN << Timer(now),
                      Event("grpc_server_handled_histogram", "", "",
                            Max(now - start_time, 0)) >>
              ELSE << >>
    ELSE << >>

\* (mutant) the outer except clause suppresses without looking at skip_exceptions
outer_except_always_skip(cfg, pending, response_or_iterator) ==
    IF pending.kind = "raise" /\ IsException(pending.exc)
    THEN [ events |->
             (IF cfg.log_exceptions THEN << Logged >> ELSE << >>)
             \o (IF response_or_iterator = None THEN << >> ELSE << Invoked >>),
           result |->
             IF response_or_iterator = None
             THEN Return(response_or_iterator)
             ELSE Return(Coroutine) ]
    ELSE [ events |-> << >>, result |-> pending ]

\* (mutant) the outer except clause logs before it looks at skip_exceptions
outer_except_always_log(cfg, pending, response_or_iterator) ==
    IF pending.kind = "raise" /\ IsException(pending.exc)
    THEN IF cfg.skip_exceptions
         THEN [ events |->
                  (IF cfg.log_exceptions THEN << Logged >> ELSE << >>)
                  \o (IF response_or_iterator = None THEN << >> ELSE << Invoked >>),
                result |->
                  IF response_or_iterator = None
                  THEN Return(response_or_iterator)
                  ELSE Return(Coroutine) ]
         ELSE [ events |-> IF cfg.log_exceptions THEN << Logged >> ELSE << >>,
                result |-> pending ]
    ELSE [ events |-> << >>, result |-> pending ]

\* new_behavior, lines 131-142: the outer except clause
outer_except(cfg, pending, response_or_iterator) ==
    IF pending.kind = "raise" /\ IsException(pending.exc)
    THEN IF cfg.skip_exceptions
         THEN [ events |->
                  (IF cfg.log_exceptions THEN << Logged >> ELSE << >>)
                  \o (IF response_or_iterator = None THEN << >> ELSE << Invoked >>),
                result |->
                  IF response_or_iterator = None
                  THEN Return(response_or_iterator)
                  ELSE Return(Coroutine) ]
         ELSE [ events |-> << >>, result |-> pending ]
    ELSE [ events |-> << >>, result |-> pending ]

\* (mutant) the latency is observed before the inner try records the outcome
after_await_latency_first(cfg, response_streaming, outcome, ctx_cancelled, ctx_code, start_time, now) ==
    LET inner == inner_try(cfg, response_streaming, outcome, ctx_cancelled, ctx_code)
        fin == finally_clause(cfg, response_streaming, start_time, now)
        outer == outer_except(cfg, inner.pending, inner.response_or_iterator)
    IN  [ events |-> << Completed >> \o fin \o inner.events \o outer.events
                     \o << Exited >>,
          result |-> outer.result ]

\* new_behavior, lines 87-142: from the completion of the awaited behavior on
after_await(cfg, response_streaming, outcome, ctx_cancelled, ctx_code, start_time, now) ==
    LET inner == inner_try(cfg, response_streaming, outcome, ctx_cancelled, ctx_code)
        fin == finally_clause(cfg, response_streaming, start_time, now)
        outer == outer_except(cfg, inner.pending, inner.response_or_iterator)
    IN  [ events |-> << Completed >> \o inner.events \o fin \o outer.events
                     \o << Exited >>,
          result |-> outer.result ]

\* _wrap_rpc_behavior, lines 195-212: behavior_fn and handler_factory by shape
wrap_present(h) ==
    IF h.request_streaming /\ h.response_streaming
    THEN stream_stream_rpc_method_handler(
             "new_behavior", Attribute(h, "stream_stream"),
             h.request_deserializer, h.response_serializer)
    ELSE IF h.request_streaming /\ ~h.response_streaming
    THEN stream_unary_rpc_method_handler(
             "new_behavior", Attribute(h, "stream_unary"),
             h.request_deserializer, h.response_serializer)
    ELSE IF ~h.request_streaming /\ h.response_streaming
    THEN unary_stream_rpc_method_handler(
             "new_behavior", Attribute(h, "unary_stream"),
             h.request_deserializer, h.response_serializer)
    ELSE unary_unary_rpc_method_handler(
             "new_behavior", Attribute(h, "unary_unary"),
             h.request_deserializer, h.response_serializer)

\* (mutant) _wrap_rpc_behavior without its test for an absent handler
wrap_rpc_behavior_unchecked(h) ==
    wrap_present(h)

\* (mutant) _wrap_rpc_behavior whose stream-unary branch takes the
\* unary-stream attribute and factory
wrap_rpc_behavior_swapped(h) ==
    IF ~h.present THEN NoHandler
    ELSE IF h.request_streaming /\ ~h.response_streaming
    THEN unary_stream_rpc_method_handler(
             "new_behavior", Attribute(h, "unary_stream"),
             h.request_deserializer, h.response_serializer)
    ELSE wrap_present(h)

\* _wrap_rpc_behavior: the handler factory of the handler's shape around
\* metrics_wrapper(behavior_fn, request_streaming, response_streaming)
wrap_rpc_behavior(h) ==
    IF ~h.present THEN NoHandler
    ELSE wrap_present(h)

\* (mutant) intercept_service that looks at the request side alone
intercept_service_request_only(cfg, h) ==
    IF cfg.unary_only /\ h.present /\ h.request_streaming
    THEN h
    ELSE wrap_rpc_behavior(h)

\* intercept_service, lines 146-155
intercept_service(cfg, h) ==
    IF cfg.unary_only /\ h.present /\ (h.request_streaming \/ h.response_streaming)
    THEN h
    ELSE wrap_rpc_behavior(h)

\* ---- what the original behavior can do ----------------------------------
\* Its completion: a response (a message or None; a stream for a streaming
\* response), an RPC error (a grpc.aio.Call or not, with a code or without),
\* another Exception, or a BaseException such as asyncio.CancelledError.
Outcomes(response_streaming) ==
    (IF response_streaming
     THEN {Return(Iter(n)) : n \in 0..MaxMsgs}
     ELSE {Return(None), Return(Msg(1))})
    \cup {Raise(RpcError(TRUE, NotFound)), Raise(RpcError(FALSE, NotFound)),
          Raise(RpcError(FALSE, NoCode)), Raise(OtherError), Raise(BaseError)}

\* How the source of a wrapped stream ends: normally or with an error.
StreamEnds == {"end", "error"}

\* servicer_context.code() when the behavior completes: None, the raw
\* identifier of a status, or one that is no key of the mapping.  Only a
\* behavior that returned a non-streaming response has it looked at (line
\* 104); the context of any other completion is taken without a status.
ContextCodes(response_streaming, outcome) ==
    IF outcome.kind = "return" /\ ~response_streaming
    THEN {NoCode, UnmappedRaw} \cup DOMAIN code_to_status_mapping
    ELSE {NoCode}

\* ---- the state machine --------------------------------------------------
Init ==
    /\ config \in Configs
    /\ pc = [c \in Calls |-> IF c = 1 THEN "new" ELSE "unused"]
    /\ details = [c \in Calls |-> CHOOSE d \in CallDetails : TRUE]
    /\ handler = [c \in Calls |-> NoHandler]
    /\ optional_any = [c \in Calls |-> NoHandler]
    /\ start = [c \in Calls |-> 0]
    /\ request_len = [c \in Calls |-> 0]
    /\ received = [c \in Calls |-> 0]
    /\ sent = [c \in Calls |-> 0]
    /\ stream_end = [c \in Calls |-> [request |-> "end", response |-> "end"]]
    /\ cancelled = [c \in Calls |-> FALSE]
    /\ context_code = [c \in Calls |-> NoCode]
    /\ behavior_outcome = [c \in Calls |-> Pending]
    /\ result = [c \in Calls |-> Pending]
    /\ trace = [c \in Calls |-> << >>]
    /\ registry = EmptyBag

grpc_type(c) == get_method_type(handler[c].request_streaming, handler[c].response_streaming)

\* (mutant) the events of every call are recorded under the labels of call 1
Emit_first_call_labels(c, es) ==
    /\ trace' = [trace EXCEPT ![c] = @ \o es]
    /\ registry' = Record(registry, es, grpc_type(1), details[1])

\* The events es of call c happen: they join its trace and reach the registry.
Emit(c, es) ==
    /\ trace' = [trace EXCEPT ![c] = @ \o es]
    /\ registry' = Record(registry, es, grpc_type(c), details[c])

\* intercept_service(continuation, handler_call_details) for call c, with
\* handler_call_details d and h what the continuation gives
InterceptWith(c, d, h) ==
    /\ pc[c] = "new"
    /\ details' = [details EXCEPT ![c] = d]
    /\ handler' = [handler EXCEPT ![c] = h]
    /\ optional_any' = [optional_any EXCEPT ![c] = intercept_service(config, h)]
    /\ pc' = [pc EXCEPT ![c] = IF h.present THEN "intercepted" ELSE "absent"]
    /\ UNCHANGED << config, start, request_len, received, sent, stream_end, cancelled,
                    context_code, behavior_outcome, result, trace, registry >>

Intercept(c) ==
    \E d \in CallDetails, h \in Handlers \cup {NoHandler} : InterceptWith(c, d, h)

\* The transport invokes a handler that intercept_service returned unwrapped:
\* the original behavior runs, outside the interceptor.
InvokeOriginal(c) ==
    /\ pc[c] = "intercepted"
    /\ optional_any[c].behavior = "original"
    /\ pc' = [pc EXCEPT ![c] = "unwrapped"]
    /\ Emit(c, << Invoked >>)
    /\ UNCHANGED << config, details, handler, optional_any, start, request_len,
                    received, sent, stream_end, cancelled, context_code, behavior_outcome, result >>

\* new_behavior, lines 66-87: up to the await of the original behavior; the
\* clock reads now and the request stream has n messages
BeginWith(c, now, n) ==
    /\ pc[c] = "intercepted"
    /\ optional_any[c].behavior = "new_behavior"
    /\ start' = [start EXCEPT ![c] = now]
    /\ request_len' = [request_len EXCEPT
                         ![c] = IF optional_any[c].request_streaming THEN n ELSE 0]
    /\ Emit(c, before_invoke(optional_any[c].request_streaming) \o << Invoked >>)
    /\ pc' = [pc EXCEPT ![c] = "awaiting"]
    /\ UNCHANGED << config, details, handler, optional_any, received, sent, stream_end,
                    cancelled, context_code, behavior_outcome, result >>

Begin(c) ==
    \E now \in Times, n \in 0..MaxMsgs : BeginWith(c, now, n)

\* The behavior pulls the next element of the wrapped request stream
\* (grpc_utils.wrap_iterator_inc_counter): counted, then yielded.
PullRequest(c) ==
    /\ pc[c] = "awaiting"
    /\ optional_any[c].request_streaming
    /\ received[c] < request_len[c]
    /\ received' = [received EXCEPT ![c] = @ + 1]
    /\ Emit(c, wrap_iterator_inc_counter(Received, "request", received[c] + 1))
    /\ UNCHANGED << config, pc, details, handler, optional_any, start, request_len,
                    sent, stream_end, cancelled, context_code, behavior_outcome, result >>

\* The behavior pulls from the wrapped request stream once its source has
\* ended, which it did how: the end, normal or not, reaches the behavior.
EndRequestWith(c, how) ==
    /\ pc[c] = "awaiting"
    /\ optional_any[c].request_streaming
    /\ received[c] = request_len[c]
    /\ \A i \in 1..Len(trace[c]) : trace[c][i].ev # "end"
    /\ stream_end' = [stream_end EXCEPT ![c].request = how]
    /\ Emit(c, wrap_iterator_end("request", how))
    /\ UNCHANGED << config, pc, details, handler, optional_any, start, request_len,
                    received, sent, cancelled, context_code, behavior_outcome, result >>

EndRequest(c) ==
    \E how \in StreamEnds : EndRequestWith(c, how)

\* The call is cancelled while new_behavior is suspended.
Cancel(c) ==
    /\ pc[c] = "awaiting"
    /\ ~cancelled[c]
    /\ cancelled' = [cancelled EXCEPT ![c] = TRUE]
    /\ UNCHANGED << config, pc, details, handler, optional_any, start, request_len,
                    received, sent, stream_end, context_code, behavior_outcome, result, trace,
                    registry >>

\* new_behavior, lines 87-142: the awaited behavior completes with outcome
\* and new_behavior runs to its end (it has no other suspension point); the
\* clock reads now and servicer_context.code() is ctx_code
ResumeWith(c, outcome, now, ctx_code) ==
    /\ pc[c] = "awaiting"
    /\ LET r == after_await(config, optional_any[c].response_streaming, outcome,
                            cancelled[c], ctx_code, start[c], now)
       IN  /\ behavior_outcome' = [behavior_outcome EXCEPT ![c] = outcome]
           /\ context_code' = [context_code EXCEPT ![c] = ctx_code]
           /\ result' = [result EXCEPT ![c] = r.result]
           /\ pc' = [pc EXCEPT ![c] = IF r.result.kind = "return"
                                      THEN "returned" ELSE "raised"]
           /\ Emit(c, r.events)
    /\ UNCHANGED << config, details, handler, optional_any, start, request_len,
                    received, sent, stream_end, cancelled >>

Resume(c) ==
    \E outcome \in Outcomes(optional_any[c].response_streaming), now \in Times :
    \E ctx_code \in ContextCodes(optional_any[c].response_streaming, outcome) :
        ResumeWith(c, outcome, now, ctx_code)

\* The transport pulls the next element of the wrapped response stream
\* (grpc_utils.wrap_iterator_inc_counter): counted, then yielded.
PullResponse(c) ==
    /\ pc[c] = "returned"
    /\ result[c].val.t = "wrapped_iter"
    /\ sent[c] < result[c].val.v
    /\ sent' = [sent EXCEPT ![c] = @ + 1]
    /\ Emit(c, wrap_iterator_inc_counter(Sent, "response", sent[c] + 1))
    /\ UNCHANGED << config, pc, details, handler, optional_any, start, request_len,
                    received, stream_end, cancelled, context_code, behavior_outcome,
                    result >>

\* The transport pulls from the wrapped response stream once its source has
\* ended, which it did how: the end, normal or not, reaches the transport.
EndResponseWith(c, how) ==
    /\ pc[c] = "returned"
    /\ result[c].val.t = "wrapped_iter"
    /\ sent[c] = result[c].val.v
    /\ \A i \in 1..Len(trace[c]) :
          ~(trace[c][i].ev = "end" /\ trace[c][i].key = "response")
    /\ stream_end' = [stream_end EXCEPT ![c].response = how]
    /\ Emit(c, wrap_iterator_end("response", how))
    /\ UNCHANGED << config, pc, details, handler, optional_any, start, request_len,
                    received, sent, cancelled, context_code, behavior_outcome, result >>

EndResponse(c) ==
    \E how \in StreamEnds : EndResponseWith(c, how)

Next ==
    \E c \in Calls :
        \/ Intercept(c)
        \/ InvokeOriginal(c)
        \/ Begin(c)
        \/ PullRequest(c)
        \/ EndRequest(c)
        \/ Cancel(c)
        \/ Resume(c)
        \/ PullResponse(c)
        \/ EndResponse(c)

Spec == Init /\ [][Next]_vars

\* ---- concurrent calls ---------------------------------------------------
\* Every call of Calls is served, each a task of its own on the event loop:
\* a step of the loop runs one call from one suspension point (the await of
\* the behavior, a pull from a wrapped stream) to its next, so the steps of
\* different calls interleave in any order.  The interceptor is constructed
\* with the default arguments, unary_only apart; the handlers are the
\* unary-unary and the stream-stream one, a request stream has one message,
\* and the behavior returns one message or raises an RPC error.
ConcConfigs ==
    { cfg \in Configs : /\ cfg.enable_handling_time_histogram
                        /\ ~cfg.legacy
                        /\ ~cfg.skip_exceptions
                        /\ cfg.log_exceptions }

ConcHandlers == { h \in Handlers : h.request_streaming = h.response_streaming }

ConcOutcomes == { Return(Msg(1)), Return(Iter(1)), Raise(RpcError(TRUE, NotFound)) }

InitConc ==
    /\ config \in ConcConfigs
    /\ pc = [c \in Calls |-> "new"]
    /\ details = [c \in Calls |-> CHOOSE d \in CallDetails : TRUE]
    /\ handler = [c \in Calls |-> NoHandler]
    /\ optional_any = [c \in Calls |-> NoHandler]
    /\ start = [c \in Calls |-> 0]
    /\ request_len = [c \in Calls |-> 0]
    /\ received = [c \in Calls |-> 0]
    /\ sent = [c \in Calls |-> 0]
    /\ stream_end = [c \in Calls |-> [request |-> "end", response |-> "end"]]
    /\ cancelled = [c \in Calls |-> FALSE]
    /\ context_code = [c \in Calls |-> NoCode]
    /\ behavior_outcome = [c \in Calls |-> Pending]
    /\ result = [c \in Calls |-> Pending]
    /\ trace = [c \in Calls |-> << >>]
    /\ registry = EmptyBag

ConcIntercept(c) ==
    \E d \in CallDetails, h \in ConcHandlers : InterceptWith(c, d, h)

ConcBegin(c) ==
    \E now \in Times : BeginWith(c, now, 1)

ConcResume(c) ==
    \E outcome \in Outcomes(optional_any[c].response_streaming) \cap ConcOutcomes,
       now \in Times :
        ResumeWith(c, outcome, now, NoCode)

ConcEndRequest(c) == EndRequestWith(c, "end")

ConcEndResponse(c) == EndResponseWith(c, "end")

NextConc ==
    \E c \in Calls :
        \/ ConcIntercept(c)
        \/ InvokeOriginal(c)
        \/ ConcBegin(c)
        \/ PullRequest(c)
        \/ ConcEndRequest(c)
        \/ ConcResume(c)
        \/ PullResponse(c)
        \/ ConcEndResponse(c)

SpecConc == InitConc /\ [][NextConc]_vars

\* ---- what the claims speak about ----------------------------------------
IsHandled(e) == e.ev = "grpc_server_handled_total_counter"
IsStarted(e) == e.ev = "grpc_server_started_counter"
IsInvoked(e) == e.ev = "invoke"
IsLegacyLatency(e) == e.ev = "legacy_grpc_server_handled_latency_seconds"
IsCurrentLatency(e) == e.ev = "grpc_server_handled_histogram"
IsLatency(e) == IsLegacyLatency(e) \/ IsCurrentLatency(e)

Handled(c) == SelectSeq(trace[c], IsHandled)
Latencies(c) == SelectSeq(trace[c], IsLatency)
StartedCount(c) == Len(SelectSeq(trace[c], IsStarted))
Invocations(c) == Len(SelectSeq(trace[c], IsInvoked))
NoMetrics(c) == \A i \in 1..Len(trace[c]) : ~IsMetric(trace[c][i])

\* new_behavior is running or has run for call c / has returned or raised
Instrumented(c) == pc[c] \in {"awaiting", "returned", "raised"}
Terminated(c) == pc[c] \in {"returned", "raised"}

BehaviorReturned(c) == behavior_outcome[c].kind = "return"
BehaviorRaised(c) == behavior_outcome[c].kind = "raise"

\* The exception that leaves the inner try of call c: the one the behavior
\* raised, or the KeyError of the status lookup; NoError when there is none.
Escaping(c) ==
    IF BehaviorRaised(c) THEN behavior_outcome[c].exc
    ELSE IF /\ BehaviorReturned(c)
            /\ ~handler[c].response_streaming
            /\ ~cancelled[c]
            /\ context_code[c] # NoCode
            /\ context_code[c] \notin DOMAIN code_to_status_mapping
         THEN KeyError
         ELSE NoError

\* ---- claims -------------------------------------------------------------

\* C1 (as claimed): when the original behavior raises a transport-level RPC
\* error, the wrapped behavior records it and raises that same error, under
\* every configuration; it never returns in its place.
C1_RpcErrorReraised ==
    \A c \in Calls :
        (Terminated(c) /\ BehaviorRaised(c) /\ IsRpcError(behavior_outcome[c].exc))
        => /\ result[c] = Raise(behavior_outcome[c].exc)
           /\ Len(Handled(c)) = 1

\* C2 (as claimed): with skip_exceptions, when an exception that is no RPC
\* error escapes, the wrapped behavior returns the response the behavior had
\* produced, or, when there is none, invokes the behavior once more and
\* returns that invocation's result.
C2_SkipFallback ==
    \A c \in Calls :
        (/\ Terminated(c)
         /\ config.skip_exceptions
         /\ Escaping(c).cls \in {"Exception", "KeyError"})
        => IF BehaviorReturned(c) /\ behavior_outcome[c].val # None
           THEN /\ result[c] = Return(behavior_outcome[c].val)
                /\ Invocations(c) = 1
           ELSE /\ Invocations(c) = 2
                /\ result[c] = Return(Coroutine)

\* The status the claim C3 expects on the "calls handled" increment.
C3_ExpectedStatus(c) ==
    IF BehaviorReturned(c)
    THEN IF cancelled[c] THEN "CANCELLED" ELSE "OK"
    ELSE IF IsRpcError(behavior_outcome[c].exc)
         THEN StatusCode[behavior_outcome[c].exc.code + 1]
         ELSE "UNKNOWN"

\* The outcomes C3 speaks about: success, cancellation detected, an RPC error
\* that carries a status, any other Exception raised by the behavior.
C3_InScope(c) ==
    \/ BehaviorReturned(c) /\ (cancelled[c] \/ context_code[c] = NoCode)
    \/ /\ BehaviorRaised(c)
       /\ IsRpcError(behavior_outcome[c].exc)
       /\ behavior_outcome[c].exc.code # NoCode
    \/ BehaviorRaised(c) /\ behavior_outcome[c].exc = OtherError

\* C3 (as claimed): a terminated call with a non-streaming response has
\* exactly one "calls handled" increment, labelled OK, CANCELLED, the
\* error's own code, or UNKNOWN for an error that is no RPC error.
C3_ExactlyOneHandled ==
    \A c \in Calls :
        (Terminated(c) /\ ~handler[c].response_streaming /\ C3_InScope(c))
        => /\ Len(Handled(c)) = 1
           /\ Handled(c)[1].code = C3_ExpectedStatus(c)

\* C4 (as claimed): a call with a streaming response never increments the
\* "calls handled" counter, whatever its outcome.
C4_NoHandledForStreaming ==
    \A c \in Calls :
        (Instrumented(c) /\ handler[c].response_streaming) => Len(Handled(c)) = 0

\* C5: with skip_exceptions false, an exception that is no RPC error, raised
\* by the behavior or by the metric code, is re-raised unchanged and the
\* behavior is not invoked again.
C5_ReraisedWithoutSkip ==
    \A c \in Calls :
        (/\ Terminated(c)
         /\ ~config.skip_exceptions
         /\ Escaping(c) # NoError
         /\ ~IsRpcError(Escaping(c)))
        => /\ result[c] = Raise(Escaping(c))
           /\ Invocations(c) = 1

C5_Witness ==
    \E c \in Calls :
        /\ Terminated(c)
        /\ ~config.skip_exceptions
        /\ BehaviorReturned(c)
        /\ behavior_outcome[c].val = Msg(1)
        /\ Escaping(c) = KeyError
        /\ result[c] = Raise(KeyError)

\* C6: a call with a non-streaming request has exactly one "calls started"
\* increment, made before the original behavior is invoked; a call with a
\* streaming request has none, whatever it pulls and however it ends.
C6_StartedCounter ==
    \A c \in Calls :
        Instrumented(c)
        => IF handler[c].request_streaming
           THEN StartedCount(c) = 0
           ELSE /\ StartedCount(c) = 1
                /\ IsStarted(trace[c][1])
                /\ \A i \in 1..Len(trace[c]) : IsInvoked(trace[c][i]) => i > 1

C6_Witness ==
    \E c \in Calls :
        /\ Terminated(c)
        /\ ~handler[c].request_streaming
        /\ Len(trace[c]) >= 2
        /\ IsStarted(trace[c][1])
        /\ IsInvoked(trace[c][2])

\* C7: a terminated call with a non-streaming response has exactly one latency
\* observation when legacy or enable_handling_time_histogram is set, whatever
\* the outcome, and none when both are unset; a call with a streaming
\* response never has one.
C7_LatencyObservation ==
    \A c \in Calls :
        Instrumented(c)
        => Len(Latencies(c)) =
              IF /\ Terminated(c)
                 /\ ~handler[c].response_streaming
                 /\ (config.legacy \/ config.enable_handling_time_histogram)
              THEN 1 ELSE 0

C7_Witness ==
    \E c \in Calls :
        /\ Terminated(c)
        /\ ~handler[c].response_streaming
        /\ config.legacy
        /\ ~config.enable_handling_time_histogram
        /\ BehaviorRaised(c)
        /\ behavior_outcome[c].exc = OtherError
        /\ Len(Latencies(c)) = 1

\* The status of a completed behavior, whatever the configuration.
StatusOf(c) ==
    IF BehaviorReturned(c)
    THEN IF cancelled[c] THEN "CANCELLED"
         ELSE IF context_code[c] = NoCode THEN "OK"
         ELSE StatusCode[context_code[c] + 1]
    ELSE IF behavior_outcome[c].exc.call
         THEN StatusCode[behavior_outcome[c].exc.code + 1]
         ELSE "UNKNOWN"

\* C8: a call never has both a legacy and a current latency observation
\* (legacy when legacy is set, also with enable_handling_time_histogram;
\* current otherwise), and each "calls handled" increment carries the
\* status under one label key, code when legacy and grpc_code when not, with
\* a status value that does not depend on the mode.
C8_LegacyExclusive ==
    \A c \in Calls :
        /\ \A i \in 1..Len(trace[c]) :
              /\ IsLegacyLatency(trace[c][i]) => config.legacy
              /\ IsCurrentLatency(trace[c][i]) => ~config.legacy
              /\ IsHandled(trace[c][i])
                 => /\ trace[c][i].key = IF config.legacy THEN "code" ELSE "grpc_code"
                    /\ trace[c][i].code = StatusOf(c)
        /\ \A s \in BagToSet(registry) :
              /\ s.name = "legacy_grpc_server_handled_latency_seconds" => config.legacy
              /\ s.name = "grpc_server_handled_histogram" => ~config.legacy
              /\ s.name = "grpc_server_handled_total_counter"
                 => s.key = IF config.legacy THEN "code" ELSE "grpc_code"

C8_Witness ==
    \E c \in Calls :
        /\ Terminated(c)
        /\ config.legacy
        /\ config.enable_handling_time_histogram
        /\ Len(Handled(c)) = 1
        /\ Handled(c)[1].key = "code"
        /\ Len(Latencies(c)) = 1
        /\ IsLegacyLatency(Latencies(c)[1])

\* C9: with unary_only, a handler with a streaming request or response is
\* returned as it is, and invoking it changes no metric; a UnaryUnary handler
\* is still wrapped, and instrumented when invoked.
C9_UnaryOnly ==
    config.unary_only =>
        /\ \A c \in Calls :
              (pc[c] \notin {"new", "unused"} /\ handler[c].present)
              => IF handler[c].request_streaming \/ handler[c].response_streaming
                 THEN /\ optional_any[c] = handler[c]
                      /\ NoMetrics(c)
                 ELSE /\ optional_any[c].behavior = "new_behavior"
                      /\ Instrumented(c) => StartedCount(c) = 1
        /\ (\A c \in Calls : NoMetrics(c)) => registry = EmptyBag

C9_Witness ==
    /\ config.unary_only
    /\ \E c \in Calls :
          /\ pc[c] = "unwrapped"
          /\ handler[c].request_streaming
          /\ handler[c].response_streaming
          /\ Invocations(c) = 1

\* C10: when the continuation yields no handler, intercept_service returns
\* that absence under every configuration: no handler is made up and no
\* metric is recorded.
C10_AbsentHandler ==
    \A c \in Calls :
        pc[c] = "absent"
        => /\ ~handler[c].present
           /\ optional_any[c] = NoHandler
           /\ trace[c] = << >>
           /\ ~ENABLED Begin(c)
           /\ ~ENABLED InvokeOriginal(c)

C10_Witness ==
    \E c \in Calls : pc[c] = "absent" /\ config.unary_only

\* The attribute of a handler that its shape selects.
SlotOf(h) ==
    IF h.request_streaming
    THEN IF h.response_streaming THEN "stream_stream" ELSE "stream_unary"
    ELSE IF h.response_streaming THEN "unary_stream" ELSE "unary_unary"

\* C11: a wrapped handler has the shape of the original: the same
\* request_streaming and response_streaming, new_behavior in the attribute
\* of that shape, around the behavior the original has there, and the
\* original's request deserializer and response serializer.
C11_ShapePreserved ==
    \A c \in Calls :
        (handler[c].present /\ optional_any[c] # handler[c])
        => /\ optional_any[c].present
           /\ optional_any[c].request_streaming = handler[c].request_streaming
           /\ optional_any[c].response_streaming = handler[c].response_streaming
           /\ optional_any[c].slot = SlotOf(handler[c])
           /\ optional_any[c].slot = handler[c].slot
           /\ optional_any[c].behavior = "new_behavior"
           /\ optional_any[c].wraps = "original"
           /\ optional_any[c].request_deserializer = handler[c].request_deserializer
           /\ optional_any[c].response_serializer = handler[c].response_serializer

C11_Witness ==
    \E c \in Calls :
        /\ pc[c] = "intercepted"
        /\ handler[c].request_streaming
        /\ ~handler[c].response_streaming
        /\ handler[c].request_deserializer = "FromString"
        /\ optional_any[c].slot = "stream_unary"
        /\ optional_any[c].behavior = "new_behavior"

\* The raw identifiers of the canonical statuses, as grpc defines them.
CanonicalStatus ==
    [ raw \in 0..16 |->
        CASE raw = 0 -> "OK"
          [] raw = 1 -> "CANCELLED"
          [] raw = 2 -> "UNKNOWN"
          [] raw = 3 -> "INVALID_ARGUMENT"
          [] raw = 4 -> "DEADLINE_EXCEEDED"
          [] raw = 5 -> "NOT_FOUND"
          [] raw = 6 -> "ALREADY_EXISTS"
          [] raw = 7 -> "PERMISSION_DENIED"
          [] raw = 8 -> "RESOURCE_EXHAUSTED"
          [] raw = 9 -> "FAILED_PRECONDITION"
          [] raw = 10 -> "ABORTED"
          [] raw = 11 -> "OUT_OF_RANGE"
          [] raw = 12 -> "UNIMPLEMENTED"
          [] raw = 13 -> "INTERNAL"
          [] raw = 14 -> "UNAVAILABLE"
          [] raw = 15 -> "DATA_LOSS"
          [] raw = 16 -> "UNAUTHENTICATED" ]

\* C12: the status resolved for a behavior that returned is one code, by
\* priority: CANCELLED when the context reports cancellation, whatever its
\* explicit status; else OK when it reports no explicit status; else the
\* canonical status with the context's raw identifier, for every member of
\* the enumeration.
C12_StatusPriority ==
    \A c \in Calls :
        (/\ Terminated(c)
         /\ ~handler[c].response_streaming
         /\ BehaviorReturned(c)
         /\ (cancelled[c] \/ context_code[c] = NoCode
                          \/ context_code[c] \in DOMAIN CanonicalStatus))
        => /\ Len(Handled(c)) = 1
           /\ Handled(c)[1].code =
                 IF cancelled[c] THEN "CANCELLED"
                 ELSE IF context_code[c] = NoCode THEN "OK"
                 ELSE CanonicalStatus[context_code[c]]

C12_Witness ==
    \E c \in Calls :
        /\ Terminated(c)
        /\ BehaviorReturned(c)
        /\ cancelled[c]
        /\ context_code[c] = 16
        /\ Len(Handled(c)) = 1
        /\ Handled(c)[1].code = "CANCELLED"

\* C13 (as claimed): for an RPC error raised out of the behavior, the
\* "calls handled" increment carries the error's own status whenever the
\* error carries one, and UNKNOWN only when it carries none.
C13_ErrorOwnCode ==
    \A c \in Calls :
        (Terminated(c) /\ BehaviorRaised(c) /\ IsRpcError(behavior_outcome[c].exc))
        => /\ Len(Handled(c)) = 1
           /\ Handled(c)[1].code =
                 IF behavior_outcome[c].exc.code # NoCode
                 THEN CanonicalStatus[behavior_outcome[c].exc.code]
                 ELSE "UNKNOWN"

\* The elements yielded by the wrapped stream of a side of call c, the ends
\* it passed on, and the increments of a per-message counter.
Yields(c, side) == SelectSeq(trace[c], LAMBDA e : e.ev = "yield" /\ e.key = side)
Ends(c, side) == SelectSeq(trace[c], LAMBDA e : e.ev = "end" /\ e.key = side)
CountOf(c, name) == Len(SelectSeq(trace[c], LAMBDA e : e.ev = name))

\* C14: at every moment the "messages received" count of a call is the
\* number of elements pulled from its wrapped request stream, and the
\* "messages sent" count the number pulled from its wrapped response stream:
\* elements of the source that were not pulled are not counted, the pulled
\* elements are those of the source, in its order, and the end of the source,
\* normal or by an error, is what the consumer gets.
C14_StreamCounts ==
    \A c \in Calls :
        /\ CountOf(c, "grpc_server_stream_msg_received") = received[c]
        /\ Len(Yields(c, "request")) = received[c]
        /\ received[c] <= request_len[c]
        /\ \A i \in 1..Len(Yields(c, "request")) : Yields(c, "request")[i].value = i
        /\ Len(Ends(c, "request")) <= 1
        /\ \A i \in 1..Len(Ends(c, "request")) :
              /\ Ends(c, "request")[i].code = stream_end[c].request
              /\ received[c] = request_len[c]
        /\ CountOf(c, "grpc_server_stream_msg_sent") = sent[c]
        /\ Len(Yields(c, "response")) = sent[c]
        /\ sent[c] > 0 => (BehaviorReturned(c) /\ sent[c] <= behavior_outcome[c].val.v)
        /\ \A i \in 1..Len(Yields(c, "response")) : Yields(c, "response")[i].value = i
        /\ Len(Ends(c, "response")) <= 1
        /\ \A i \in 1..Len(Ends(c, "response")) :
              /\ Ends(c, "response")[i].code = stream_end[c].response
              /\ sent[c] = behavior_outcome[c].val.v

C14_Witness ==
    \E c \in Calls :
        /\ request_len[c] = 2
        /\ received[c] = 1
        /\ CountOf(c, "grpc_server_stream_msg_received") = 1
        /\ BehaviorReturned(c)
        /\ behavior_outcome[c].val = Iter(2)
        /\ sent[c] = 2
        /\ CountOf(c, "grpc_server_stream_msg_sent") = 2
        /\ stream_end[c].response = "error"
        /\ Len(Ends(c, "response")) = 1

\* C15: the latency observed for a call is never negative: it is 0 when the
\* clock read at the end is earlier than the call's start, and the
\* difference of the two otherwise.
C15_LatencyFloored ==
    \A c \in Calls :
        \A i \in 1..Len(trace[c]) :
            IsLatency(trace[c][i])
            => /\ i > 1
               /\ trace[c][i - 1].ev = "default_timer"
               /\ trace[c][i].value >= 0
               /\ trace[c][i].value =
                     IF trace[c][i - 1].value < start[c]
                     THEN 0
                     ELSE trace[c][i - 1].value - start[c]

C15_Witness ==
    \E c \in Calls :
        /\ Terminated(c)
        /\ Len(Latencies(c)) = 1
        /\ Latencies(c)[1].value = 0
        /\ \E i \in 1..Len(trace[c]) :
              trace[c][i].ev = "default_timer" /\ trace[c][i].value < start[c]

IsCompleted(e) == e.ev = "complete"
IsExited(e) == e.ev = "exit"
IsYielded(e) == e.ev = "yield"
IsMessageCount(e) == e = Received \/ e = Sent
SideOf(e) == IF e = Received THEN "request" ELSE "response"

\* C16: within one call the events come in a fixed order: the started
\* increment before the invocation of the original behavior, each
\* per-message increment right before the yield of that message, the handled
\* increment only after the behavior has completed, and the latency
\* observation after the handled increment and before new_behavior returns
\* or raises.
C16_EventOrder ==
    \A c \in Calls :
        Instrumented(c) =>
            \A i \in 1..Len(trace[c]) :
                LET e == trace[c][i] IN
                /\ IsInvoked(e) /\ ~optional_any[c].request_streaming
                   => \E j \in 1..(i - 1) : IsStarted(trace[c][j])
                /\ IsStarted(e)
                   => \A j \in 1..Len(trace[c]) : IsInvoked(trace[c][j]) => i < j
                /\ IsMessageCount(e)
                   => /\ i < Len(trace[c])
                      /\ IsYielded(trace[c][i + 1])
                      /\ trace[c][i + 1].key = SideOf(e)
                /\ IsYielded(e)
                   => /\ i > 1
                      /\ IsMessageCount(trace[c][i - 1])
                      /\ SideOf(trace[c][i - 1]) = e.key
                /\ IsHandled(e)
                   => \E j \in 1..(i - 1) : IsCompleted(trace[c][j])
                /\ IsLatency(e)
                   => /\ \A j \in 1..Len(trace[c]) : IsHandled(trace[c][j]) => j < i
                      /\ \E j \in 1..(i - 1) : IsCompleted(trace[c][j])
                      /\ \E j \in (i + 1)..Len(trace[c]) : IsExited(trace[c][j])
                      /\ \A j \in 1..Len(trace[c]) : IsExited(trace[c][j]) => i < j

C16_Witness ==
    \E c \in Calls :
        /\ Terminated(c)
        /\ StartedCount(c) = 1
        /\ Len(Handled(c)) = 1
        /\ Len(Latencies(c)) = 1
        /\ Latencies(c)[1].value > 0

\* C17 (as claimed): a call with a non-streaming response that was cancelled
\* while the original behavior was suspended records, once the behavior has
\* completed, a handled increment labelled CANCELLED, and no other metric
\* between the completion and that increment.
C17_CancelledHandled ==
    \A c \in Calls :
        Terminated(c) /\ cancelled[c] /\ ~optional_any[c].response_streaming
        => \E k \in 1..Len(trace[c]) :
              /\ IsCompleted(trace[c][k])
              /\ \E i \in (k + 1)..Len(trace[c]) :
                    /\ IsHandled(trace[c][i])
                    /\ trace[c][i].code = "CANCELLED"
                    /\ \A j \in (k + 1)..(i - 1) : ~IsMetric(trace[c][j])

\* An exception reaches the outer except clause of call c
ReachesPolicy(c) == IsException(Escaping(c))

\* The first invocation of call c produced a response
ResponseProduced(c) == BehaviorReturned(c) /\ behavior_outcome[c].val # None

\* C19 (as claimed): the original behavior is invoked exactly once when no
\* exception reaches the outer except clause or skip_exceptions is false,
\* never more than twice, a second time only with skip_exceptions and an
\* exception, and never a second time when the first invocation had
\* produced a response.
C19_InvocationCount ==
    \A c \in Calls :
        Terminated(c)
        => /\ Invocations(c) \in {1, 2}
           /\ (~ReachesPolicy(c) \/ ~config.skip_exceptions) => Invocations(c) = 1
           /\ Invocations(c) = 2 => ~ResponseProduced(c)

IsLogged(e) == e = Logged
Logs(c) == Len(SelectSeq(trace[c], IsLogged))

\* C20: a call that has run to its end has one log entry if an exception
\* reached the outer except clause and skip_exceptions and log_exceptions
\* are both true, and none otherwise.
C20_LoggedIffSuppressed ==
    \A c \in Calls :
        /\ Logs(c) <= 1
        /\ Terminated(c)
           => (Logs(c) = 1
               <=> (ReachesPolicy(c) /\ config.skip_exceptions /\ config.log_exceptions))
        /\ ~Terminated(c) => Logs(c) = 0

C20_Witness ==
    \E c \in Calls :
        /\ Terminated(c)
        /\ ReachesPolicy(c)
        /\ Logs(c) = 1

\* What call c contributes to the registry when it runs alone: the samples
\* of its own events under its own labels
Contribution(c) ==
    Record(EmptyBag, trace[c],
           get_method_type(handler[c].request_streaming, handler[c].response_streaming),
           details[c])

RECURSIVE ContributionsUpTo(_)
ContributionsUpTo(n) ==
    IF n = 0 THEN EmptyBag ELSE ContributionsUpTo(n - 1) (+) Contribution(n)

\* The latency of call c is taken from the start time of call c
OwnLatency(c) ==
    \A i \in 2..Len(trace[c]) :
        IsLatency(trace[c][i])
        => trace[c][i].value = Max(trace[c][i - 1].value - start[c], 0)

====
